---- MODULE Spec2Model ----
(***************************************************************************)
(* Model of minus80/Freezable.py.                                          *)
(*                                                                         *)
(*  - relational_db: one SQLite connection, the bulk_transaction context   *)
(*    manager (savepoint, rollback, release) and query.                    *)
(*  - Freezable.__init__: directory derivation, child registration and     *)
(*    directory creation.                                                  *)
(*                                                                         *)
(* Strings are sequences of tokens, so that os.path.join, the f-string     *)
(* '{dtype}.{name}' and os.makedirs are computed, not assumed.             *)
(***************************************************************************)
EXTENDS Integers, Sequences, FiniteSets, TLC

VARIABLES
    dbBound,    \* whether the attribute `_db` read at lines 49 and 62 resolves
    db,         \* the SQLite connection opened at line 33
    frames,     \* the bulk_transaction generators that are suspended or running
    result,     \* what the outermost `with` statement gave its caller
    qres,       \* what query() returned after that
    nscopes,    \* scopes entered so far
    cf_basedir, \* cf.options.basedir
    objs,       \* the Freezable objects, in order of construction
    fs          \* the directories on disk

vars == <<dbBound, db, frames, result, qres, nscopes, cf_basedir, objs, fs>>

(***************************************************************************)
(* Bounds                                                                  *)
(***************************************************************************)
MaxRow == 2
MaxBatch == 2
MaxScopes == 2
MaxObjects == 2

Rows == 1..MaxRow

Last(s) == s[Len(s)]
Front(s) == SubSeq(s, 1, Len(s) - 1)

(***************************************************************************)
(* The SQLite engine, as far as the statements of lines 50-59 use it.      *)
(* A statement returns [ok, db]: ok = FALSE is an exception raised by      *)
(* cur.execute, and then the connection is unchanged.                      *)
(***************************************************************************)
SPName == "m80_bulk_transaction"

InitDb ==
    [table |-> {}, savepoints |-> <<>>, autocommit |-> TRUE,
     synchronous |-> "full", journal_mode |-> "delete"]

\* PRAGMA synchronous = off (line 50). SQLite refuses it inside a transaction:
\* "Safety level may not be changed inside a transaction".
ExecPragmaSynchronous(c) ==
    IF ~c.autocommit
    THEN [ok |-> FALSE, db |-> c]
    ELSE [ok |-> TRUE, db |-> [c EXCEPT !.synchronous = "off"]]

\* PRAGMA journal_mode = memory (line 51). Inside a transaction the mode is
\* left as it is and no error is raised.
ExecPragmaJournalMode(c) ==
    IF ~c.autocommit
    THEN [ok |-> TRUE, db |-> c]
    ELSE [ok |-> TRUE, db |-> [c EXCEPT !.journal_mode = "memory"]]

\* SAVEPOINT name (line 52): pushes a savepoint; outside a transaction it
\* also starts one.
ExecSavepoint(c, name) ==
    [ok |-> TRUE,
     db |-> [c EXCEPT !.savepoints = Append(@, [name |-> name, snap |-> c.table]),
                      !.autocommit = FALSE]]

\* The most recent savepoint of that name, 0 when there is none.
FindSavepoint(c, name) ==
    LET hits == {i \in 1..Len(c.savepoints) : c.savepoints[i].name = name}
    IN IF hits = {} THEN 0 ELSE CHOOSE i \in hits : \A j \in hits : j <= i

\* ROLLBACK TO SAVEPOINT name (line 56): restores the table to the savepoint,
\* drops the later savepoints and keeps the savepoint itself.
ExecRollbackTo(c, name) ==
    LET i == FindSavepoint(c, name)
    IN IF i = 0
       THEN [ok |-> FALSE, db |-> c]
       ELSE [ok |-> TRUE,
             db |-> [c EXCEPT !.table = c.savepoints[i].snap,
                              !.savepoints = SubSeq(@, 1, i)]]

\* A release that undoes the savepoint's writes instead of keeping them.
ExecReleaseDiscards(c, name) ==
    LET i == FindSavepoint(c, name)
    IN IF i = 0
       THEN [ok |-> FALSE, db |-> c]
       ELSE [ok |-> TRUE,
             db |-> [c EXCEPT !.table = c.savepoints[i].snap,
                              !.savepoints = SubSeq(@, 1, i - 1),
                              !.autocommit = (i = 1)]]

\* RELEASE SAVEPOINT name (line 59): removes the savepoint and the later ones,
\* keeps their writes; releasing the outermost savepoint commits.
ExecRelease(c, name) ==
    LET i == FindSavepoint(c, name)
    IN IF i = 0
       THEN [ok |-> FALSE, db |-> c]
       ELSE [ok |-> TRUE,
             db |-> [c EXCEPT !.savepoints = SubSeq(@, 1, i - 1),
                              !.autocommit = (i = 1)]]

\* COMMIT issued by the body through the yielded cursor: commits and leaves
\* the savepoint stack empty; an error when no transaction is active.
ExecCommit(c) ==
    IF c.autocommit
    THEN [ok |-> FALSE, db |-> c]
    ELSE [ok |-> TRUE, db |-> [c EXCEPT !.savepoints = <<>>, !.autocommit = TRUE]]

\* The writes a body issues through the yielded cursor.
Writes == [op : {"ins", "del"}, row : Rows]

Apply(t, w) == IF w.op = "ins" THEN t \cup {w.row} ELSE t \ {w.row}

ExecWrite(c, w) == [ok |-> TRUE, db |-> [c EXCEPT !.table = Apply(@, w)]]

(***************************************************************************)
(* Exceptions. `except Exception` (line 55) catches the kinds that derive  *)
(* from Exception and lets KeyboardInterrupt and SystemExit through.       *)
(***************************************************************************)
ExceptionKinds == {"ValueError", "SQLError", "AttributeError"}
BaseOnlyKinds == {"KeyboardInterrupt"}
BodyKinds == {"ValueError"} \cup BaseOnlyKinds

NoErr == [kind |-> "none", origin |-> "none"]
Err(k, o) == [kind |-> k, origin |-> o]

IsException(e) == e.kind \in ExceptionKinds

NoResult ==
    [done |-> FALSE, entered |-> FALSE, err |-> NoErr, orig |-> NoErr,
     snap |-> {}, expect |-> {}, nw |-> 0, log |-> <<>>, onlyWrites |-> TRUE]

NoQuery == [done |-> FALSE, ok |-> FALSE, rows |-> {}]

(***************************************************************************)
(* relational_db.bulk_transaction (lines 38-59) and query (lines 61-66).   *)
(* A frame is one running generator of bulk_transaction:                   *)
(*   Active  - suspended at `yield cur`, the body of the `with` runs;      *)
(*   Raised  - the body raised and the exception was thrown in at yield;   *)
(*   Finally - about to run the finally clause.                            *)
(* snap (the table at entry), expect (snap with the body's writes applied),*)
(* nw (how many writes), orig (the exception the body raised), log (the    *)
(* statements the scope executed) and onlyWrites record what happened, for *)
(* the properties; the code does not read them.                            *)
(***************************************************************************)
NewFrame(t) ==
    [state |-> "Active", err |-> NoErr, orig |-> NoErr, snap |-> t,
     expect |-> t, nw |-> 0, log |-> <<"SAVEPOINT">>, onlyWrites |-> TRUE,
     rolledBack |-> FALSE]

\* An exception e reaches the body of frame f (it propagates out of the body).
RaiseIn(f, e) == [f EXCEPT !.state = "Raised", !.err = e, !.orig = e]

\* An exception e raised by a `with` statement nested in the body of the
\* innermost frame of fr: the body either handles it or lets it propagate.
RaisedInBody(fr, e) ==
    \E caught \in BOOLEAN :
        frames' = IF caught THEN fr
                  ELSE [fr EXCEPT ![Len(fr)] = RaiseIn(@, e)]

\* Lines 49-52, up to the yield. Line 49 reads self._db, while __init__
\* (line 33) binds the connection as self.db: where `_db` is not bound the
\* call raises AttributeError before any statement is executed. Line 50
\* raises inside an open transaction, before the savepoint is created.
Enter ==
    /\ nscopes < MaxScopes
    /\ frames # <<>> => Last(frames).state = "Active"
    /\ nscopes' = nscopes + 1
    /\ LET depth == Len(frames)
           r1 == ExecPragmaSynchronous(db)
           r2 == ExecPragmaJournalMode(r1.db)
           r3 == ExecSavepoint(r2.db, SPName)
           e == IF ~dbBound THEN Err("AttributeError", "entry")
                ELSE IF ~r1.ok THEN Err("SQLError", "entry")
                ELSE NoErr
       IN IF e = NoErr
          THEN /\ db' = r3.db
               /\ frames' = Append(frames, NewFrame(db.table))
               /\ IF depth = 0
                  THEN result' = NoResult /\ qres' = NoQuery
                  ELSE UNCHANGED <<result, qres>>
          ELSE /\ db' = db
               /\ IF depth = 0
                  THEN /\ result' = [NoResult EXCEPT !.done = TRUE, !.err = e]
                       /\ qres' = NoQuery
                       /\ frames' = frames
                  ELSE /\ RaisedInBody(frames, e)
                       /\ UNCHANGED <<result, qres>>
    /\ UNCHANGED <<dbBound, cf_basedir, objs, fs>>

\* The body issues a write through the cursor (line 47).
BodyWrite ==
    /\ frames # <<>>
    /\ Last(frames).state = "Active"
    /\ Last(frames).nw < MaxBatch
    /\ \E w \in Writes :
        /\ db' = ExecWrite(db, w).db
        /\ frames' = [frames EXCEPT ![Len(frames)].expect = Apply(@, w),
                                    ![Len(frames)].nw = @ + 1]
    /\ UNCHANGED <<dbBound, result, qres, nscopes, cf_basedir, objs, fs>>

\* The body issues COMMIT through the cursor.
BodyCommit ==
    /\ frames # <<>>
    /\ Last(frames).state = "Active"
    /\ LET r == ExecCommit(db)
           f == [Last(frames) EXCEPT !.onlyWrites = FALSE]
       IN /\ db' = r.db
          /\ frames' = [frames EXCEPT ![Len(frames)] =
                            IF r.ok THEN f ELSE RaiseIn(f, Err("SQLError", "body"))]
    /\ UNCHANGED <<dbBound, result, qres, nscopes, cf_basedir, objs, fs>>

\* The body raises.
BodyRaise ==
    /\ frames # <<>>
    /\ Last(frames).state = "Active"
    /\ \E k \in BodyKinds :
        frames' = [frames EXCEPT ![Len(frames)] = RaiseIn(@, Err(k, "body"))]
    /\ UNCHANGED <<dbBound, db, result, qres, nscopes, cf_basedir, objs, fs>>

\* The body ends; the generator resumes after the yield.
BodyExit ==
    /\ frames # <<>>
    /\ Last(frames).state = "Active"
    /\ frames' = [frames EXCEPT ![Len(frames)].state = "Finally"]
    /\ UNCHANGED <<dbBound, db, result, qres, nscopes, cf_basedir, objs, fs>>

\* Lines 55-57: `except Exception as e`: roll back and `raise e`. An exception
\* of the rollback itself replaces e; an exception that is not an Exception
\* does not enter the clause.
ExceptClause ==
    /\ frames # <<>>
    /\ Last(frames).state = "Raised"
    /\ LET f == Last(frames)
           r == ExecRollbackTo(db, SPName)
       IN IF IsException(f.err)
          THEN /\ db' = r.db
               /\ frames' = [frames EXCEPT ![Len(frames)] =
                    [f EXCEPT !.state = "Finally",
                              !.log = Append(@, "ROLLBACK TO"),
                              !.rolledBack = r.ok,
                              !.err = IF r.ok THEN f.err
                                      ELSE Err("SQLError", "rollback")]]
          ELSE /\ db' = db
               /\ frames' = [frames EXCEPT ![Len(frames)].state = "Finally"]
    /\ UNCHANGED <<dbBound, result, qres, nscopes, cf_basedir, objs, fs>>

\* Lines 58-59: the finally clause releases the savepoint; an exception of the
\* release replaces the one in flight. Then the `with` statement ends.
FinallyClause ==
    /\ frames # <<>>
    /\ Last(frames).state = "Finally"
    /\ LET f == Last(frames)
           n == Len(frames)
           r == ExecRelease(db, SPName)
           e == IF r.ok THEN f.err ELSE Err("SQLError", "release")
           log2 == Append(f.log, "RELEASE")
       IN /\ db' = r.db
          /\ IF n = 1
             THEN /\ frames' = <<>>
                  /\ result' = [done |-> TRUE, entered |-> TRUE, err |-> e,
                                orig |-> f.orig, snap |-> f.snap, expect |-> f.expect,
                                nw |-> f.nw, log |-> log2,
                                onlyWrites |-> f.onlyWrites]
             ELSE LET outer == [frames[n - 1] EXCEPT
                                   !.expect = IF f.rolledBack THEN @ ELSE f.expect,
                                   !.onlyWrites = @ /\ f.onlyWrites]
                      rest == Append(SubSeq(frames, 1, n - 2), outer)
                  IN /\ IF e = NoErr THEN frames' = rest ELSE RaisedInBody(rest, e)
                     /\ result' = result
    /\ UNCHANGED <<dbBound, qres, nscopes, cf_basedir, objs, fs>>

\* Lines 61-66: query reads through the same connection (self._db again).
Query ==
    /\ frames = <<>>
    /\ ~qres.done
    /\ qres' = IF dbBound THEN [done |-> TRUE, ok |-> TRUE, rows |-> db.table]
               ELSE [done |-> TRUE, ok |-> FALSE, rows |-> {}]
    /\ UNCHANGED <<dbBound, db, frames, result, nscopes, cf_basedir, objs, fs>>

(***************************************************************************)
(* Freezable.__init__ (lines 89-126).                                      *)
(* A string is a sequence of tokens: "/" is the path separator, "NUL" the  *)
(* null byte, every other token a run of ordinary characters.              *)
(***************************************************************************)
BaseDirs == {<<"/", "cfg">>, <<"/", "alt">>}

\* basedir=None
None == <<>>

\* The basedir arguments a caller passes: none, or an override.
BaseArgs == {None, <<"/", "alt">>}

\* guess_type(self): the name of the object's class.
Kinds == {<<"Cohort">>, <<"Locus">>}

\* The names a caller may pass: a plain one, one with a path separator and
\* one with a null byte.
Names == {<<"foo">>, <<"foo", "/", "bar">>, <<"foo", "NUL">>}

\* os.path.join(a, b): an absolute b discards a; otherwise b is appended,
\* after a separator unless a is empty or ends with one.
Join(a, b) ==
    IF b # <<>> /\ b[1] = "/" THEN b
    ELSE IF a = <<>> \/ Last(a) = "/" THEN a \o b
    ELSE a \o <<"/">> \o b

\* f'{self._m80_dtype}.{self._m80_name}' (lines 114 and 121).
DirName(dtype, name) == dtype \o <<".">> \o name

\* A root directory that leaves out the 'databases' component.
RootDirNoDatabases(basedir, dtype, name) == Join(basedir, DirName(dtype, name))

\* Lines 111-115: the directory of an object with no parent.
RootDir(basedir, dtype, name) ==
    Join(Join(basedir, <<"databases">>), DirName(dtype, name))

\* A nested directory that is derived from the base directory, not the parent.
NestedDirFromBase(parentdir, basedir, dtype, name) == RootDir(basedir, dtype, name)

\* Lines 119-122: the directory of an object with a parent.
NestedDir(parentdir, basedir, dtype, name) == Join(parentdir, DirName(dtype, name))

\* The segments of a path: the runs of tokens between separators.
RECURSIVE Split(_)
Split(path) ==
    IF path = <<>> THEN <<>>
    ELSE IF Last(path) = "/" THEN Split(Front(path))
    ELSE LET seps == {i \in 1..Len(path) : path[i] = "/"}
             k == IF seps = {} THEN 0 ELSE CHOOSE i \in seps : \A j \in seps : j <= i
         IN Append(Split(SubSeq(path, 1, k)), SubSeq(path, k + 1, Len(path)))

HasNul(seg) == \E i \in 1..Len(seg) : seg[i] = "NUL"

\* A makedirs that fails on a directory that is already there.
MakedirsNoExistOk(disk, path) ==
    LET segs == Split(path)
        bad == {i \in 1..Len(segs) : HasNul(segs[i])}
        n == IF bad = {} THEN Len(segs) ELSE (CHOOSE i \in bad : \A j \in bad : i <= j) - 1
    IN IF bad = {} /\ segs \in disk
       THEN [err |-> "FileExistsError", fs |-> disk]
       ELSE [err |-> IF bad = {} THEN "none" ELSE "ValueError",
             fs |-> disk \cup {SubSeq(segs, 1, i) : i \in 1..n}]

\* os.makedirs(path, exist_ok=True) (line 126): creates the directory and
\* its missing ancestors, leaves existing ones alone, and raises ValueError
\* at the first segment with a null byte, after creating the ones before it.
Makedirs(disk, path) ==
    LET segs == Split(path)
        bad == {i \in 1..Len(segs) : HasNul(segs[i])}
        n == IF bad = {} THEN Len(segs) ELSE (CHOOSE i \in bad : \A j \in bad : i <= j) - 1
    IN [err |-> IF bad = {} THEN "none" ELSE "ValueError",
        fs |-> disk \cup {SubSeq(segs, 1, i) : i \in 1..n}]

\* parent._m80_add_child(child) (line 124): the parent records the child.
AddChild(os, parent, child) == [os EXCEPT ![parent].children = Append(@, child)]

\* Lines 100-126. An object is recorded with what the constructor assigned;
\* raised is the exception line 126 ended it with ("none": it went on).
\* arg, cf, before and disk record the basedir argument, the configured base
\* directory and the directories on disk before and after the construction;
\* the code does not read them.
Construct ==
    /\ Len(objs) < MaxObjects
    /\ \E name \in Names, dtype \in Kinds, arg \in BaseArgs,
          parent \in {0} \cup {i \in 1..Len(objs) : objs[i].raised = "none"} :
        LET basedir == IF arg = None THEN cf_basedir ELSE arg
            dir == IF parent = 0
                   THEN RootDir(basedir, dtype, name)
                   ELSE NestedDir(objs[parent].m80_basedir, basedir, dtype, name)
            me == Len(objs) + 1
            mk == Makedirs(fs, dir)
            o == [m80_name |-> name, m80_dtype |-> dtype, m80_basedir |-> dir,
                  m80_parent |-> parent, children |-> <<>>,
                  arg |-> arg, cf |-> cf_basedir, raised |-> mk.err,
                  before |-> fs, disk |-> mk.fs]
        IN /\ objs' = Append(IF parent = 0 THEN objs ELSE AddChild(objs, parent, me), o)
           /\ fs' = mk.fs
    /\ UNCHANGED <<dbBound, db, frames, result, qres, nscopes, cf_basedir>>

\* cf.options.basedir is process-wide and can be set between constructions.
SetBasedir ==
    /\ \E b \in BaseDirs \ {cf_basedir} : cf_basedir' = b
    /\ UNCHANGED <<dbBound, db, frames, result, qres, nscopes, objs, fs>>


InitStore(bound, tables) ==
    /\ dbBound \in bound
    /\ db \in {[InitDb EXCEPT !.table = t] : t \in tables}
    /\ frames = <<>>
    /\ result = NoResult
    /\ qres = NoQuery
    /\ nscopes = 0

InitFreezable(bases) ==
    /\ cf_basedir \in bases
    /\ objs = <<>>
    /\ fs = {}

\* A store over any table, before any Freezable is constructed.
Init == InitStore(BOOLEAN, SUBSET Rows) /\ InitFreezable({<<"/", "cfg">>})

\* Any configuration, with the store left alone.
InitF == InitStore({TRUE}, {{}}) /\ InitFreezable(BaseDirs)

NextStore ==
    \/ Enter
    \/ BodyWrite
    \/ BodyCommit
    \/ BodyRaise
    \/ BodyExit
    \/ ExceptClause
    \/ FinallyClause
    \/ Query

SpecStore == Init /\ [][NextStore]_vars

NextFreezable ==
    \/ Construct
    \/ SetBasedir

SpecFreezable == InitF /\ [][NextFreezable]_vars

(***************************************************************************)
(* Properties of bulk_transaction and query, under SpecStore.              *)
(***************************************************************************)
\* The outermost scope yielded its cursor and has ended.
ScopeEnded == result.done /\ result.entered

\* query() ran after the scope ended and returned rows.
Queried == qres.done /\ qres.ok

BaseOf(o) == IF o.arg = None THEN o.cf ELSE o.arg

IsPrefix(a, b) == Len(a) <= Len(b) /\ SubSeq(b, 1, Len(a)) = a

Count(seq, x) == Cardinality({i \in 1..Len(seq) : seq[i] = x})

\* C6: the directory of an object with no parent is
\* baseDir/databases/{kind}.{name}, baseDir being the basedir argument when
\* there is one and the configured base directory otherwise; two such objects
\* with the same kind, name and baseDir have the same directory.
C6_RootDirectory ==
    /\ \A i \in 1..Len(objs) :
        objs[i].m80_parent = 0 =>
            objs[i].m80_basedir =
                BaseOf(objs[i]) \o <<"/", "databases", "/">>
                    \o objs[i].m80_dtype \o <<".">> \o objs[i].m80_name
    /\ \A i, j \in 1..Len(objs) :
        (/\ objs[i].m80_parent = 0 /\ objs[j].m80_parent = 0
         /\ objs[i].m80_dtype = objs[j].m80_dtype
         /\ objs[i].m80_name = objs[j].m80_name
         /\ BaseOf(objs[i]) = BaseOf(objs[j]))
            => objs[i].m80_basedir = objs[j].m80_basedir

\* Two objects with no parent and the same kind and name, one given its base
\* directory as an argument that differs from the configured one, the other
\* taking the same directory from the configuration.
C6_Witness ==
    \E i, j \in 1..Len(objs) :
        /\ i < j
        /\ objs[i].m80_parent = 0 /\ objs[j].m80_parent = 0
        /\ objs[i].m80_dtype = objs[j].m80_dtype
        /\ objs[i].m80_name = objs[j].m80_name
        /\ objs[i].arg # None /\ objs[i].arg # objs[i].cf
        /\ objs[j].arg = None /\ objs[j].cf = objs[i].arg
        /\ objs[i].m80_basedir = objs[j].m80_basedir

\* C7: the directory of an object with a parent is
\* parent.directory/{kind}.{name}, whatever the basedir argument and the
\* configured base directory are, and the parent's children hold the object
\* exactly once.
C7_NestedDirectory ==
    \A i \in 1..Len(objs) :
        objs[i].m80_parent # 0 =>
            /\ objs[i].m80_basedir =
                   objs[objs[i].m80_parent].m80_basedir \o <<"/">>
                       \o objs[i].m80_dtype \o <<".">> \o objs[i].m80_name
            /\ Count(objs[objs[i].m80_parent].children, i) = 1

\* A child constructed with a base directory that is not its parent's.
C7_Witness ==
    \E i \in 1..Len(objs) :
        /\ objs[i].m80_parent # 0
        /\ objs[i].raised = "none"
        /\ BaseOf(objs[i]) # BaseOf(objs[objs[i].m80_parent])
        /\ Count(objs[objs[i].m80_parent].children, i) = 1

\* The name has a path separator or a null byte.
InvalidName(name) == \E k \in 1..Len(name) : name[k] \in {"/", "NUL"}

\* C8: a construction with a name that has a path separator or a null byte
\* fails with InvalidNameError, leaves the directories on disk as they were
\* and does not register the object with its parent.
C8_InvalidNameRejected ==
    \A i \in 1..Len(objs) :
        InvalidName(objs[i].m80_name) =>
            /\ objs[i].raised = "InvalidNameError"
            /\ objs[i].disk = objs[i].before
            /\ objs[i].m80_parent # 0 =>
                   Count(objs[objs[i].m80_parent].children, i) = 0

\* Objects i and i+1 were given the same kind, name and parent, and the
\* construction of the first went through.
SameTwice(i) ==
    /\ objs[i].raised = "none"
    /\ objs[i + 1].m80_dtype = objs[i].m80_dtype
    /\ objs[i + 1].m80_name = objs[i].m80_name
    /\ objs[i + 1].m80_parent = objs[i].m80_parent

Idempotent(i) ==
    /\ objs[i + 1].raised = "none"
    /\ objs[i + 1].m80_basedir = objs[i].m80_basedir
    /\ objs[i + 1].disk = objs[i].disk

RECURSIVE RootOf(_)
RootOf(i) == IF objs[i].m80_parent = 0 THEN i ELSE RootOf(objs[i].m80_parent)

\* C10: the parent of an object was constructed before it, so no object is
\* its own ancestor; the directory of an object with a parent is the parent's
\* directory and one more path segment; and every directory lies under
\* baseDir/databases of the object's root ancestor.
C10_AcyclicHierarchy ==
    \A i \in 1..Len(objs) :
        /\ objs[i].m80_parent < i
        /\ objs[i].m80_parent # 0 =>
            /\ IsPrefix(Split(objs[objs[i].m80_parent].m80_basedir), Split(objs[i].m80_basedir))
            /\ Len(Split(objs[i].m80_basedir)) =
                   Len(Split(objs[objs[i].m80_parent].m80_basedir)) + 1
        /\ IsPrefix(Split(BaseOf(objs[RootOf(i)]) \o <<"/", "databases">>),
                    Split(objs[i].m80_basedir))

====
